---------------------------- MODULE Spec2Model ----------------------------
(***************************************************************************)
(* A model of the twirp-swagger-gen schema translator                     *)
(* (internal/swagger/writer.go): the Writer's translation context, the    *)
(* handlers proto.Walk calls on the declarations of the root file and of  *)
(* the imported files, and the translation of messages, fields, services  *)
(* and RPCs.  Strings are TLA+ strings, handled character by character.   *)
(***************************************************************************)
EXTENDS Naturals, Sequences, FiniteSets, TLC

VARIABLES
    root,         \* the declarations of the file RootName under protoDir
    filename,     \* Writer.filename, the root file
    stack,        \* the proto.Walk calls in progress: <<root walk, import walks...>>
    packageName,  \* Writer.packageName
    made,         \* whether Definitions and Paths are allocated (not nil)
    definitions,  \* Writer.Swagger.Definitions
    paths,        \* Writer.Swagger.Paths.Paths
    tags,         \* Writer.Swagger.Tags
    status,       \* position of WalkFile: "none", "new", "walking", "returned", "panic"
    result,       \* what WalkFile returned
    files,        \* gen.Files of the protoc plugin: the files of the batch run
    flagsSet,     \* whether the required plugin parameters are all given
    index,        \* the position of the plugin's loop in gen.Files
    generated,    \* the output files generated so far
    outcomes,     \* what each file passed so far came to, in order
    run,          \* position of the plugin: "idle", "loop", "walk", "done", "error", "crash"
    failure,      \* the error the plugin run returned
    doc,          \* a documentation comment handed to comment()
    parsed        \* what comment() returned for doc: <<>> before the call

writerVars == <<root, filename, stack, packageName, made, definitions, paths, tags,
                status, result>>
batchVars == <<files, flagsSet, index, generated, outcomes, run, failure>>
commentVars == <<doc, parsed>>

vars == <<writerVars, batchVars, commentVars>>

(***************************************************************************)
(* Bounds of the model.                                                    *)
(***************************************************************************)
MaxDecls == 3
MaxElems == 3
MaxDepth == 4

(***************************************************************************)
(* Strings: the functions of package strings and strconv the code uses.    *)
(***************************************************************************)
Char(s, i) == SubSeq(s, i, i)

UpperChars == "ABCDEFGHIJKLMNOPQRSTUVWXYZ"
LowerChars == "abcdefghijklmnopqrstuvwxyz"
DigitChars == "0123456789"

IndexIn(alphabet, c) ==
    IF \E i \in 1..Len(alphabet) : Char(alphabet, i) = c
    THEN CHOOSE i \in 1..Len(alphabet) : Char(alphabet, i) = c
    ELSE 0

LowerChar(c) ==
    IF IndexIn(UpperChars, c) = 0 THEN c ELSE Char(LowerChars, IndexIn(UpperChars, c))

RECURSIVE ToLower(_)
ToLower(s) == IF s = "" THEN "" ELSE LowerChar(Head(s)) \o ToLower(Tail(s))

Contains(s, sub) ==
    \E i \in 1..(Len(s) + 1) :
        i + Len(sub) - 1 <= Len(s) /\ SubSeq(s, i, i + Len(sub) - 1) = sub

RECURSIVE ReplaceAll(_, _, _)
ReplaceAll(s, old, new) ==
    IF Len(s) < Len(old) \/ s = "" THEN s
    ELSE IF SubSeq(s, 1, Len(old)) = old
         THEN new \o ReplaceAll(SubSeq(s, Len(old) + 1, Len(s)), old, new)
         ELSE Head(s) \o ReplaceAll(Tail(s), old, new)

IsSpace(c) == c \in {" ", "\t", "\n", "\r"}

RECURSIVE TrimLeft(_)
TrimLeft(s) == IF s # "" /\ IsSpace(Head(s)) THEN TrimLeft(Tail(s)) ELSE s

RECURSIVE TrimRight(_)
TrimRight(s) ==
    IF s # "" /\ IsSpace(Char(s, Len(s)))
    THEN TrimRight(SubSeq(s, 1, Len(s) - 1))
    ELSE s

TrimSpace(s) == TrimRight(TrimLeft(s))

\* strings.Split(s, sep) for a one-character separator: always at least one part
RECURSIVE Split(_, _)
Split(s, sep) ==
    IF ~Contains(s, sep) THEN <<s>>
    ELSE LET i == CHOOSE j \in 1..Len(s) :
                      /\ Char(s, j) = sep
                      /\ \A k \in 1..(j - 1) : Char(s, k) # sep
         IN <<SubSeq(s, 1, i - 1)>> \o Split(SubSeq(s, i + 1, Len(s)), sep)

RECURSIVE Join(_, _)
Join(parts, sep) ==
    IF parts = <<>> THEN ""
    ELSE IF Len(parts) = 1 THEN parts[1]
    ELSE parts[1] \o sep \o Join(Tail(parts), sep)

RECURSIVE Itoa(_)
Itoa(n) == IF n < 10 THEN Char(DigitChars, n + 1)
           ELSE Itoa(n \div 10) \o Char(DigitChars, (n % 10) + 1)

IsDigits(s) == s # "" /\ \A i \in 1..Len(s) : IndexIn(DigitChars, Char(s, i)) # 0

\* strconv.Atoi succeeds: an optional sign, then decimal digits, within int64
Int64Max == "9223372036854775807"

RECURSIVE StripZeros(_)
StripZeros(s) == IF Len(s) > 1 /\ Head(s) = "0" THEN StripZeros(Tail(s)) ELSE s

RECURSIVE DigitsLeq(_, _)
DigitsLeq(a, b) ==  \* a <= b for digit strings of equal length
    IF a = "" THEN TRUE
    ELSE IF Head(a) = Head(b) THEN DigitsLeq(Tail(a), Tail(b))
    ELSE IndexIn(DigitChars, Head(a)) < IndexIn(DigitChars, Head(b))

Unsigned(s) == IF s # "" /\ Head(s) \in {"+", "-"} THEN Tail(s) ELSE s

AtoiOk(s) ==
    /\ IsDigits(Unsigned(s))
    /\ LET d == StripZeros(Unsigned(s))
       IN \/ Len(d) < Len(Int64Max)
          \/ Len(d) = Len(Int64Max) /\ DigitsLeq(d, Int64Max)

\* the integer strconv.Atoi returns, written in decimal
AtoiValue(s) ==
    LET d == StripZeros(Unsigned(s))
    IN IF Head(s) = "-" /\ d # "0" THEN "-" \o d ELSE d

\* strconv.ParseFloat succeeds: a decimal mantissa with an optional exponent,
\* or an infinity or a NaN
IsMantissa(s) ==
    IF Contains(s, ".")
    THEN LET p == Split(s, ".")
         IN /\ Len(p) = 2
            /\ p[1] = "" \/ IsDigits(p[1])
            /\ p[2] = "" \/ IsDigits(p[2])
            /\ p[1] # "" \/ p[2] # ""
    ELSE IsDigits(s)

IsDecimalFloat(s) ==
    LET l == ToLower(s)
    IN IF Contains(l, "e")
       THEN LET p == Split(l, "e")
            IN Len(p) = 2 /\ IsMantissa(p[1]) /\ IsDigits(Unsigned(p[2]))
       ELSE IsMantissa(l)

ParseFloatOk(s) ==
    \/ IsDecimalFloat(Unsigned(s))
    \/ ToLower(Unsigned(s)) \in {"inf", "infinity"}
    \/ ToLower(s) = "nan"

(***************************************************************************)
(* Documentation comments.  A *proto.Comment is nil or holds Lines.        *)
(***************************************************************************)
NilComment == [IsNil |-> TRUE, Lines |-> <<>>]
Comment(lines) == [IsNil |-> FALSE, Lines |-> lines]

\* an example value: Go's interface{} holding an int, a float64 or a string
IntExample(s) == [kind |-> "int", v |-> s]
FloatExample(s) == [kind |-> "float64", v |-> s]
StringExample(s) == [kind |-> "string", v |-> s]
NoExample == [kind |-> "nil", v |-> ""]

\* the loop of comment(): the trimmed lines up to the first empty one, each
\* preceded by a space
RECURSIVE commentResult(_)
commentResult(lines) ==
    IF lines = <<>> \/ TrimSpace(Head(lines)) = "" THEN ""
    ELSE " " \o TrimSpace(Head(lines)) \o commentResult(Tail(lines))

\* a comment() that tries the float parse before the integer parse
commentFloatFirst(c) ==
    IF c.IsNil THEN <<"", StringExample("")>>
    ELSE LET res == commentResult(c.Lines)
         IN IF Len(res) > 1
            THEN LET x == Split(SubSeq(res, 2, Len(res)), ";")
                 IN IF Len(x) > 1
                    THEN LET example == TrimSpace(x[2])
                         IN IF ParseFloatOk(example)
                            THEN <<x[1], FloatExample(example)>>
                            ELSE IF AtoiOk(example)
                            THEN <<x[1], IntExample(AtoiValue(example))>>
                            ELSE <<x[1], StringExample(example)>>
                    ELSE <<x[1], StringExample("")>>
            ELSE <<"", StringExample("")>>

\* comment() returns (title, example)
comment(c) ==
    IF c.IsNil THEN <<"", StringExample("")>>
    ELSE LET res == commentResult(c.Lines)
         IN IF Len(res) > 1
            THEN LET x == Split(SubSeq(res, 2, Len(res)), ";")
                 IN IF Len(x) > 1
                    THEN LET example == TrimSpace(x[2])
                         IN IF AtoiOk(example)
                            THEN <<x[1], IntExample(AtoiValue(example))>>
                            ELSE IF ParseFloatOk(example)
                            THEN <<x[1], FloatExample(example)>>
                            ELSE <<x[1], StringExample(example)>>
                    ELSE <<x[1], StringExample("")>>
            ELSE <<"", StringExample("")>>

RECURSIVE descriptionLines(_)
descriptionLines(lines) ==
    IF lines = <<>> THEN <<>>
    ELSE LET line == TrimSpace(Head(lines))
         IN <<IF Contains(line, ";") THEN Split(line, ";")[1] ELSE line>>
            \o descriptionLines(Tail(lines))

description(c) == IF c.IsNil THEN "" ELSE Join(descriptionLines(c.Lines), "\n")

(***************************************************************************)
(* The type mapping table (typeAliases): IDL scalar and well-known type    *)
(* names to the output type and format.  A name outside the table has no   *)
(* entry.                                                                  *)
(***************************************************************************)
typeAliases ==
    [int32 |-> [Type |-> "integer", Format |-> "int32"],
     bool |-> [Type |-> "boolean", Format |-> "boolean"],
     string |-> [Type |-> "string", Format |-> ""],
     double |-> [Type |-> "number", Format |-> "double"]]

allowedValues == <<"boolean", "integer", "number", "object", "string", "bytes">>

find(haystack, needle) == \E k \in 1..Len(haystack) : haystack[k] = needle

(***************************************************************************)
(* spec.Schema: the fields of SchemaProps, SwaggerSchemaProps and          *)
(* VendorExtensible the translator sets.  "" and <<>> stand for a field    *)
(* left at its zero value; Items and AdditionalProperties hold at most one *)
(* schema.                                                                 *)
(***************************************************************************)
EmptyMap == [k \in {} |-> k]

MapPut(m, key, value) ==
    [k \in DOMAIN m \cup {key} |-> IF k = key THEN value ELSE m[k]]

Schema == [Title |-> "", Description |-> "", Type |-> "", Format |-> "",
           Ref |-> "", Items |-> <<>>, AdditionalProperties |-> <<>>,
           Extensions |-> {}, Example |-> NoExample, Enum |-> <<>>,
           Properties |-> EmptyMap]

WithExample(schema, example) == [schema EXCEPT !.Example = example]

\* ext.Add("x-order", strconv.Itoa(order))
OrderExtension(order) == {<<"x-order", Itoa(order)>>}

(***************************************************************************)
(* addField of Writer.Message: the property schema stored under the        *)
(* field's name.  field is [Name, Type, Comment]; pkg is sw.packageName.   *)
(***************************************************************************)
addField(field, mapKeyType, repeated, order, pkg) ==
    LET fieldTitle == comment(field.Comment)[1]
        example == comment(field.Comment)[2]
        fieldDescription == description(field.Comment)
        aliased == field.Type \in DOMAIN typeAliases
        type1 == IF aliased THEN typeAliases[field.Type].Type ELSE field.Type
        format0 == IF aliased THEN typeAliases[field.Type].Format ELSE field.Type
        format1 == IF type1 = format0 THEN "" ELSE format0
        isMap == mapKeyType # "" /\ mapKeyType \in DOMAIN typeAliases
        additionalProps ==
            IF isMap
            THEN <<[Allows |-> FALSE,
                    Schema |-> [Schema EXCEPT !.Type = typeAliases[mapKeyType].Type]]>>
            ELSE <<>>
        fieldType == IF isMap THEN "object" ELSE type1
        fieldFormat == IF isMap THEN "" ELSE format1
        ext == OrderExtension(order)
        hasExample == example # StringExample("")
    IN IF find(allowedValues, fieldType)
       THEN LET fieldSchema == [Schema EXCEPT !.Title = fieldTitle,
                                              !.Description = fieldDescription,
                                              !.Type = fieldType,
                                              !.Format = fieldFormat,
                                              !.AdditionalProperties = additionalProps]
                item == [fieldSchema EXCEPT !.Title = "", !.Description = "",
                                            !.Format = ""]
            IN IF repeated
               THEN [Schema EXCEPT
                       !.Title = fieldTitle,
                       !.Description = fieldDescription,
                       !.Type = "array",
                       !.Format = fieldFormat,
                       \* Items points at fieldSchema, which gets the example
                       !.Items = <<IF hasExample THEN WithExample(item, example)
                                   ELSE item>>,
                       !.Extensions = ext]
               ELSE fieldSchema
       ELSE LET richType == IF ~Contains(fieldType, ".")
                            THEN pkg \o "." \o fieldType ELSE fieldType
                ref == "#/definitions/" \o richType
            IN IF repeated
               THEN LET fieldSchema ==
                            [Schema EXCEPT
                               !.Title = fieldTitle,
                               !.Description = fieldDescription,
                               !.Type = "array",
                               !.Items = <<[Schema EXCEPT !.Ref = ref]>>,
                               !.Extensions = ext]
                    IN IF hasExample THEN WithExample(fieldSchema, example)
                       ELSE fieldSchema
               ELSE LET fieldSchema ==
                            [Schema EXCEPT !.Title = fieldTitle,
                                           !.Description = fieldDescription,
                                           !.Ref = ref,
                                           !.Extensions = ext]
                    IN IF hasExample THEN WithExample(fieldSchema, example)
                       ELSE fieldSchema

(***************************************************************************)
(* Writer.Message.  A message is [Name, Comment, Elements]; an element is  *)
(* a NormalField, a MapField, a Oneof (whose Elements are OneOfFields), a  *)
(* Comment, or a nested Message, told apart by k.                          *)
(***************************************************************************)
\* the first loop: the elements of every one-of appended to msg.Elements
RECURSIVE oneofElements(_)
oneofElements(elements) ==
    IF elements = <<>> THEN <<>>
    ELSE (IF Head(elements).k = "Oneof" THEN Head(elements).Elements ELSE <<>>)
         \o oneofElements(Tail(elements))

allFields(msg) == msg.Elements \o oneofElements(msg.Elements)

IsField(element) == element.k \in {"OneOfField", "MapField", "NormalField"}

\* the second loop, up to element n of all: fieldOrder and schemaProps
RECURSIVE translateFields(_, _, _)
translateFields(all, n, pkg) ==
    IF n = 0 THEN [fieldOrder |-> <<>>, schemaProps |-> EmptyMap]
    ELSE LET before == translateFields(all, n - 1, pkg)
             val == all[n]
             i == n - 1
         IN IF IsField(val)
            THEN [fieldOrder |-> Append(before.fieldOrder, val.Field.Name),
                  schemaProps |->
                      MapPut(before.schemaProps, val.Field.Name,
                             addField(val.Field,
                                      IF val.k = "MapField" THEN val.KeyType ELSE "",
                                      IF val.k = "NormalField" THEN val.Repeated
                                      ELSE FALSE,
                                      i, pkg))]
            ELSE before

definitionName(pkg, name) == pkg \o "." \o name

MessageSchema(msg, pkg) ==
    LET all == allFields(msg)
        done == translateFields(all, Len(all), pkg)
        schemaDesc == IF Len(done.fieldOrder) > 0
                      THEN description(msg.Comment) \o "\n\nFields: "
                           \o Join(done.fieldOrder, ", ")
                      ELSE description(msg.Comment)
    IN [Schema EXCEPT !.Title = comment(msg.Comment)[1],
                      !.Description = TrimSpace(schemaDesc),
                      !.Type = "object",
                      !.Properties = done.schemaProps]

(***************************************************************************)
(* Writer.Enum, Writer.Service and Writer.RPC.                             *)
(***************************************************************************)
RECURSIVE enumValues(_)
enumValues(elements) ==
    IF elements = <<>> THEN <<>>
    ELSE (IF Head(elements).k = "EnumField" THEN <<Head(elements).Name>> ELSE <<>>)
         \o enumValues(Tail(elements))

EnumSchema(enum) ==
    [Schema EXCEPT !.Title = comment(enum.Comment)[1],
                   !.Description = description(enum.Comment),
                   !.Type = "string",
                   !.Enum = enumValues(enum.Elements)]

TagNames(tgs) == {tgs[i].Name : i \in 1..Len(tgs)}

\* a Writer.Service that does not look for the name among the tags
ServiceTagsAlwaysAppends(tgs, srv) ==
    Append(tgs, [Name |-> srv.Name, Description |-> description(srv.Comment)])

\* sw.Tags after Writer.Service(srv)
ServiceTags(tgs, srv) ==
    IF \E i \in 1..Len(tgs) : tgs[i].Name = srv.Name
    THEN tgs
    ELSE Append(tgs, [Name |-> srv.Name, Description |-> description(srv.Comment)])

\* the route of an RPC: parent is the name of the enclosing service
pathName(pkg, parent, rpcName) ==
    LET base == ReplaceAll(ToLower(parent), "service", "")
    IN "/" \o base \o "/" \o pkg \o "." \o parent \o "/" \o rpcName

\* the spec.PathItem stored for an RPC: one POST operation
PathItem(pkg, rpc) ==
    [Post |->
        [ID |-> rpc.Name,
         Tags |-> <<rpc.Parent>>,
         Summary |-> description(rpc.Comment),
         Responses |->
             [code |-> 200,
              Description |-> "A successful response.",
              Ref |-> "#/definitions/" \o pkg \o "." \o rpc.ReturnsType],
         Parameters |->
             <<[Name |-> "body", In |-> "body", Required |-> TRUE,
                Ref |-> "#/definitions/" \o pkg \o "." \o rpc.RequestType]>>]]

(***************************************************************************)
(* proto.Walk: the elements of a file in the order the handlers see them,  *)
(* each container followed by the elements it holds (a service by its      *)
(* RPCs, a message by its nested messages).                                *)
(***************************************************************************)
RECURSIVE Visits(_)
Visits(elements) ==
    IF elements = <<>> THEN <<>>
    ELSE LET e == Head(elements)
         IN (IF e.k \in {"Package", "Import", "Enum"} THEN <<e>>
             ELSE IF e.k \in {"Message", "Service"} THEN <<e>> \o Visits(e.Elements)
             ELSE IF e.k = "RPC" THEN <<e>>
             ELSE <<>>)
            \o Visits(Tail(elements))

\* the handlers of the walk of the root file, and of an imported file
Handlers == {"Package", "RPC", "Message", "Enum", "Service", "Import"}
\* an import walk given the handlers of the root walk
ImportHandlersOfRoot == {"Package", "RPC", "Message", "Enum", "Service", "Import"}
ImportHandlers == {"Package", "Import", "Message", "Enum"}

\* the import paths Writer.Import leaves alone
SkippedImports == <<"google/api/annotations.proto",
                    "google/protobuf/timestamp.proto",
                    "google/protobuf/wrappers.proto">>

IsSkippedImport(name) ==
    \E i \in 1..Len(SkippedImports) : Contains(name, SkippedImports[i])

(***************************************************************************)
(* The inputs: the declarations the files are drawn from.                  *)
(***************************************************************************)
Field(name, type, c) == [Name |-> name, Type |-> type, Comment |-> c]
NormalField(f, repeated) == [k |-> "NormalField", Field |-> f, Repeated |-> repeated]
MapField(f, keyType) == [k |-> "MapField", Field |-> f, KeyType |-> keyType]
OneOfField(f) == [k |-> "OneOfField", Field |-> f]
Oneof(name, elements) == [k |-> "Oneof", Name |-> name, Elements |-> elements]
CommentElement == [k |-> "Comment"]
Message(name, c, elements) ==
    [k |-> "Message", Name |-> name, Comment |-> c, Elements |-> elements]
EnumField(name) == [k |-> "EnumField", Name |-> name]
Enum(name, c, elements) ==
    [k |-> "Enum", Name |-> name, Comment |-> c, Elements |-> elements]
RPC(parent, name, request, returns, c) ==
    [k |-> "RPC", Parent |-> parent, Name |-> name, RequestType |-> request,
     ReturnsType |-> returns, Comment |-> c]
Service(name, c, elements) ==
    [k |-> "Service", Name |-> name, Comment |-> c, Elements |-> elements]
Package(name) == [k |-> "Package", Name |-> name]
Import(name) == [k |-> "Import", Filename |-> name]

\* the sequences over S of length at most n without a repeated element
RECURSIVE SeqsUpTo(_, _)
SeqsUpTo(S, n) ==
    IF n = 0 THEN {<<>>}
    ELSE LET shorter == SeqsUpTo(S, n - 1)
         IN shorter \cup {Append(q, x) : q \in shorter, x \in S}

Distinct(q) == \A i, j \in 1..Len(q) : i # j => q[i] # q[j]

\* the elements a message is made of
MessageElements ==
    {NormalField(Field("id", "int32", Comment(<<"Identifier; 42">>)), FALSE),
     NormalField(Field("tags", "string", Comment(<<" Tags; vip", "of the order">>)), TRUE),
     NormalField(Field("counts", "int32", NilComment), TRUE),
     NormalField(Field("item", "Item", NilComment), FALSE),
     NormalField(Field("lines", "other.Item", Comment(<<"Lines; 1.5">>)), TRUE),
     MapField(Field("flags", "bool", NilComment), "int32"),
     Oneof("choice", <<OneOfField(Field("text", "string", Comment(<<"Text; hello">>))),
                       OneOfField(Field("ref", "Item", NilComment))>>),
     CommentElement,
     Message("Inner", NilComment, <<>>)}

Messages ==
    {Message("Order", Comment(<<"Order; 7", "An order.">>), q) :
        q \in {x \in SeqsUpTo(MessageElements, MaxElems) : Distinct(x)}}

\* the declarations of a root file
RootDeclarations ==
    {Package("orders"),
     Import("other.proto"), Import("nopkg.proto"), Import("missing.proto"),
     Import("loop.proto"), Import("vendor/google/protobuf/timestamp.proto"),
     Message("Order", NilComment,
             <<NormalField(Field("id", "int32", NilComment), FALSE)>>),
     Enum("Status", Comment(<<"Status; open">>),
          <<EnumField("OPEN"), EnumField("CLOSED")>>),
     Service("OrderService", Comment(<<"Orders.">>),
             <<RPC("OrderService", "GetOrder", "GetOrderRequest", "Order",
                   Comment(<<"Fetches an order; fast">>))>>),
     Service("OrderService", Comment(<<"Again.">>), <<>>),
     Service("Billing", NilComment,
             <<RPC("Billing", "Charge", "other.Item", "Order", NilComment)>>)}

PackageCount(q) == Cardinality({i \in 1..Len(q) : q[i].k = "Package"})

RootFiles ==
    {q \in SeqsUpTo(RootDeclarations, MaxDecls) : PackageCount(q) <= 1}
    \cup {<<Package("orders"), m>> : m \in Messages}

RootName == "orders.proto"

\* the files that can be imported; "missing.proto" is not among them
ImportedFiles ==
    [n \in {"other.proto", "deep.proto", "nopkg.proto", "loop.proto"} |->
        CASE n = "other.proto" ->
                <<Package("other"), Import("deep.proto"),
                  Message("Item", NilComment,
                          <<NormalField(Field("sku", "string", NilComment), FALSE)>>),
                  Service("OtherService", NilComment,
                          <<RPC("OtherService", "Get", "Item", "Item", NilComment)>>),
                  Enum("Kind", NilComment, <<EnumField("A")>>)>>
          [] n = "deep.proto" ->
                <<Package("deep"), Message("Deep", NilComment, <<>>)>>
          [] n = "nopkg.proto" ->
                <<Message("Bare", NilComment, <<>>), Import("missing.proto"),
                  Enum("Tail", NilComment, <<EnumField("Z")>>)>>
          [] n = "loop.proto" ->
                <<Package("loop"), Import("loop.proto"),
                  Message("Node", NilComment, <<>>)>>]

\* loadProtoFile: the files that exist under protoDir, and what they hold
Loadable(name) == name \in DOMAIN ImportedFiles \cup {RootName}
Declarations(name) == IF name = RootName THEN root ELSE ImportedFiles[name]

\* no plugin run and no call of comment() is in progress
NoBatch ==
    /\ files = <<>>
    /\ flagsSet = TRUE
    /\ index = 0
    /\ generated = <<>>
    /\ outcomes = <<>>
    /\ run = "idle"
    /\ failure = ""

NoComment == doc = NilComment /\ parsed = <<>>

\* no Writer exists
NoWriter ==
    /\ root = <<>>
    /\ filename = ""
    /\ stack = <<>>
    /\ packageName = ""
    /\ made = FALSE
    /\ definitions = EmptyMap
    /\ paths = EmptyMap
    /\ tags = <<>>
    /\ status = "none"
    /\ result = ""

(***************************************************************************)
(* NewWriter: the state before WalkFile.  Definitions, Paths and Tags of   *)
(* the fresh spec.Swagger are nil.                                         *)
(***************************************************************************)
Init ==
    /\ root \in RootFiles
    /\ filename \in {RootName, "absent.proto"}
    /\ stack = <<>>
    /\ packageName = ""
    /\ made = FALSE
    /\ definitions = EmptyMap
    /\ paths = EmptyMap
    /\ tags = <<>>
    /\ status = "new"
    /\ result = ""
    /\ NoBatch
    /\ NoComment

(***************************************************************************)
(* WalkFile and the handlers.                                              *)
(***************************************************************************)
Depth == Len(stack)
Top == stack[Depth]
TopVisits == Visits(Declarations(Top.file))
Visiting == status = "walking" /\ Top.idx <= Len(TopVisits)
Current == TopVisits[Top.idx]
InRoot == Depth = 1
Handled(kind) == IF InRoot THEN kind \in Handlers ELSE kind \in ImportHandlers
At(kind) == Visiting /\ Current.k = kind /\ Handled(kind)

Advanced == [stack EXCEPT ![Depth].idx = @ + 1]
Frame(file, old) == [file |-> file, idx |-> 1, oldPackageName |-> old]

\* an operation on a nil map or through the nil Paths pointer
Panic ==
    /\ status' = "panic"
    /\ UNCHANGED <<root, filename, stack, packageName, made, definitions, paths,
                   tags, result>>

\* WalkFile up to the call of proto.Walk
WalkFileLoad ==
    /\ UNCHANGED <<batchVars, commentVars>>
    /\ status = "new"
    /\ IF Loadable(filename)
       THEN /\ stack' = <<Frame(filename, "")>>
            /\ status' = "walking"
            /\ result' = result
       ELSE /\ status' = "returned"
            /\ result' = "open: no such file"
            /\ stack' = stack
    /\ UNCHANGED <<root, filename, packageName, made, definitions, paths, tags>>

\* Writer.Package, called in the walk of the root file
PackageHandler ==
    /\ UNCHANGED <<batchVars, commentVars>>
    /\ At("Package") /\ InRoot
    /\ made' = TRUE
    /\ definitions' = EmptyMap
    /\ paths' = EmptyMap
    /\ tags' = <<>>
    /\ packageName' = Current.Name
    /\ stack' = Advanced
    /\ UNCHANGED <<root, filename, status, result>>

\* withPackage, called in the walk of an imported file
withPackage ==
    /\ UNCHANGED <<batchVars, commentVars>>
    /\ At("Package") /\ ~InRoot
    /\ packageName' = Current.Name
    /\ stack' = Advanced
    /\ UNCHANGED <<root, filename, made, definitions, paths, tags, status, result>>

\* Writer.Import returning at once: a skipped path
ImportSkipped ==
    /\ UNCHANGED <<batchVars, commentVars>>
    /\ At("Import")
    /\ IsSkippedImport(Current.Filename)
    /\ stack' = Advanced
    /\ UNCHANGED <<root, filename, packageName, made, definitions, paths, tags,
                   status, result>>

\* a Writer.Import that panics when loadProtoFile fails
ImportFailedPanics ==
    /\ UNCHANGED <<batchVars, commentVars>>
    /\ At("Import")
    /\ ~IsSkippedImport(Current.Filename)
    /\ ~Loadable(Current.Filename)
    /\ Panic

\* Writer.Import when loadProtoFile fails
ImportFailed ==
    /\ UNCHANGED <<batchVars, commentVars>>
    /\ At("Import")
    /\ ~IsSkippedImport(Current.Filename)
    /\ ~Loadable(Current.Filename)
    /\ stack' = Advanced
    /\ UNCHANGED <<root, filename, packageName, made, definitions, paths, tags,
                   status, result>>

\* a Writer.Import that leaves alone a file whose walk is in progress
ImportWalkOnce ==
    /\ UNCHANGED <<batchVars, commentVars>>
    /\ At("Import")
    /\ ~IsSkippedImport(Current.Filename)
    /\ Loadable(Current.Filename)
    /\ Depth < MaxDepth
    /\ stack' = IF \E d \in 1..Depth : stack[d].file = Current.Filename
                THEN Advanced
                ELSE Append(Advanced, Frame(Current.Filename, packageName))
    /\ UNCHANGED <<root, filename, packageName, made, definitions, paths, tags,
                   status, result>>

\* Writer.Import up to its call of proto.Walk on the imported file
ImportWalk ==
    /\ UNCHANGED <<batchVars, commentVars>>
    /\ At("Import")
    /\ ~IsSkippedImport(Current.Filename)
    /\ Loadable(Current.Filename)
    /\ Depth < MaxDepth
    /\ stack' = Append(Advanced, Frame(Current.Filename, packageName))
    /\ UNCHANGED <<root, filename, packageName, made, definitions, paths, tags,
                   status, result>>

\* a Writer.Import that does not put oldPackageName back
ImportReturnKeepsPackage ==
    /\ UNCHANGED <<batchVars, commentVars>>
    /\ status = "walking" /\ Depth > 1
    /\ Top.idx > Len(TopVisits)
    /\ stack' = SubSeq(stack, 1, Depth - 1)
    /\ UNCHANGED <<root, filename, packageName, made, definitions, paths, tags,
                   status, result>>

\* Writer.Import after proto.Walk returned
ImportReturn ==
    /\ UNCHANGED <<batchVars, commentVars>>
    /\ status = "walking" /\ Depth > 1
    /\ Top.idx > Len(TopVisits)
    /\ packageName' = Top.oldPackageName
    /\ stack' = SubSeq(stack, 1, Depth - 1)
    /\ UNCHANGED <<root, filename, made, definitions, paths, tags, status, result>>

MessageHandler ==
    /\ UNCHANGED <<batchVars, commentVars>>
    /\ At("Message")
    /\ IF made
       THEN /\ definitions' = MapPut(definitions,
                                     definitionName(packageName, Current.Name),
                                     MessageSchema(Current, packageName))
            /\ stack' = Advanced
            /\ UNCHANGED <<root, filename, packageName, made, paths, tags, status,
                           result>>
       ELSE Panic

EnumHandler ==
    /\ UNCHANGED <<batchVars, commentVars>>
    /\ At("Enum")
    /\ IF made
       THEN /\ definitions' = MapPut(definitions,
                                     definitionName(packageName, Current.Name),
                                     EnumSchema(Current))
            /\ stack' = Advanced
            /\ UNCHANGED <<root, filename, packageName, made, paths, tags, status,
                           result>>
       ELSE Panic

\* a Writer.Service that inserts the tag at any place, as tags kept in a keyed
\* collection would come out
ServiceHandlerAnyOrder ==
    /\ UNCHANGED <<batchVars, commentVars>>
    /\ At("Service")
    /\ \E i \in 0..Len(tags) :
          tags' = IF Current.Name \in TagNames(tags) THEN tags
                  ELSE SubSeq(tags, 1, i)
                       \o <<[Name |-> Current.Name,
                              Description |-> description(Current.Comment)]>>
                       \o SubSeq(tags, i + 1, Len(tags))
    /\ stack' = Advanced
    /\ UNCHANGED <<root, filename, packageName, made, definitions, paths, status,
                   result>>

ServiceHandler ==
    /\ UNCHANGED <<batchVars, commentVars>>
    /\ At("Service")
    /\ tags' = ServiceTags(tags, Current)
    /\ stack' = Advanced
    /\ UNCHANGED <<root, filename, packageName, made, definitions, paths, status,
                   result>>

RPCHandler ==
    /\ UNCHANGED <<batchVars, commentVars>>
    /\ At("RPC")
    /\ IF made
       THEN /\ paths' = MapPut(paths,
                               pathName(packageName, Current.Parent, Current.Name),
                               PathItem(packageName, Current))
            /\ stack' = Advanced
            /\ UNCHANGED <<root, filename, packageName, made, definitions, tags,
                           status, result>>
       ELSE Panic

\* an element no handler of this walk is registered for
NoHandler ==
    /\ UNCHANGED <<batchVars, commentVars>>
    /\ Visiting /\ ~Handled(Current.k)
    /\ stack' = Advanced
    /\ UNCHANGED <<root, filename, packageName, made, definitions, paths, tags,
                   status, result>>

\* WalkFile after proto.Walk returned: the check of the paths
WalkFileReturn ==
    /\ UNCHANGED <<batchVars, commentVars>>
    /\ status = "walking" /\ InRoot
    /\ Top.idx > Len(TopVisits)
    /\ IF ~made THEN Panic
       ELSE /\ status' = "returned"
            /\ result' = IF DOMAIN paths = {} THEN "ErrNoServiceDefinition" ELSE "nil"
            /\ UNCHANGED <<root, filename, stack, packageName, made, definitions,
                           paths, tags>>

Next ==
    \/ WalkFileLoad
    \/ PackageHandler
    \/ withPackage
    \/ ImportSkipped
    \/ ImportFailed
    \/ ImportWalk
    \/ ImportReturn
    \/ MessageHandler
    \/ EnumHandler
    \/ ServiceHandler
    \/ RPCHandler
    \/ NoHandler
    \/ WalkFileReturn

Spec == Init /\ [][Next]_vars

\* the walk of a root file whose declarations carry no documentation comment;
\* the program runs on while it has a step to take
Plain(declaration) ==
    declaration.k \in {"Package", "Import"} \/ declaration.Comment = NilComment

FairInit == Init /\ \A i \in 1..Len(root) : Plain(root[i])

FairSpec == FairInit /\ [][Next]_vars /\ WF_vars(Next)

(***************************************************************************)
(* The protoc plugin (cmd/protoc-gen-twirp-swagger): one run over          *)
(* gen.Files, a fresh Writer for every file marked for generation.  A file *)
(* is [Path, Generate, Content], Content what proto_dir holds under Path.  *)
(***************************************************************************)
MaxFiles == 3

File(path, generate, content) ==
    [Path |-> path, Generate |-> generate, Content |-> content]

\* a file with imports, types and two services
ServicesFile ==
    <<Package("orders"), Import("other.proto"), Import("missing.proto"),
      Import("vendor/google/protobuf/timestamp.proto"),
      Message("Order", Comment(<<"Order; 7">>),
              <<NormalField(Field("id", "int32", Comment(<<"Identifier; 42">>)), FALSE),
                NormalField(Field("item", "Item", NilComment), FALSE)>>),
      Enum("Status", NilComment, <<EnumField("OPEN")>>),
      Service("OrderService", Comment(<<"Orders.">>),
              <<RPC("OrderService", "GetOrder", "GetOrderRequest", "Order", NilComment)>>),
      Service("Billing", NilComment,
              <<RPC("Billing", "Charge", "Order", "Order", NilComment)>>)>>

\* a file with one service
ServiceFile ==
    <<Package("orders"),
      Service("OrderService", NilComment,
              <<RPC("OrderService", "GetOrder", "GetOrderRequest", "Order", NilComment)>>)>>

\* a file of types only
TypesFile ==
    <<Package("orders"),
      Message("Order", NilComment,
              <<NormalField(Field("id", "int32", NilComment), FALSE)>>)>>

\* a file that declares no package
BareFile == <<Message("Order", NilComment, <<>>)>>

BatchFiles ==
    {File(RootName, TRUE, ServicesFile),
     File(RootName, TRUE, ServiceFile),
     File(RootName, TRUE, TypesFile),
     File(RootName, TRUE, BareFile),
     File("absent.proto", TRUE, <<>>),
     File(RootName, FALSE, ServiceFile)}

\* writer.Get(): the document marshalled, map keys sorted
Get == [definitions |-> definitions, paths |-> paths, tags |-> tags]
NoBody == [definitions |-> EmptyMap, paths |-> EmptyMap, tags |-> <<>>]

Outcome(what, body) == [result |-> what, body |-> body]

BatchInit ==
    /\ files \in SeqsUpTo(BatchFiles, MaxFiles)
    /\ flagsSet \in BOOLEAN
    /\ index = 1
    /\ generated = <<>>
    /\ outcomes = <<>>
    /\ run = "loop"
    /\ failure = ""
    /\ NoWriter
    /\ NoComment

InLoop == run = "loop" /\ index <= Len(files)

\* if !f.Generate { continue }
BatchSkipFile ==
    /\ InLoop
    /\ ~files[index].Generate
    /\ index' = index + 1
    /\ outcomes' = Append(outcomes, Outcome("not generated", NoBody))
    /\ UNCHANGED <<writerVars, files, flagsSet, generated, run, failure, commentVars>>

\* errorIfEmpty of a required parameter returns an error
BatchMissingFlag ==
    /\ InLoop
    /\ files[index].Generate
    /\ ~flagsSet
    /\ run' = "error"
    /\ failure' = "missing parameter"
    /\ UNCHANGED <<writerVars, files, flagsSet, index, generated, outcomes,
                   commentVars>>

\* swagger.NewWriter(in, ...)
BatchNewWriter ==
    /\ InLoop
    /\ files[index].Generate
    /\ flagsSet
    /\ root' = files[index].Content
    /\ filename' = files[index].Path
    /\ stack' = <<>>
    /\ packageName' = ""
    /\ made' = FALSE
    /\ definitions' = EmptyMap
    /\ paths' = EmptyMap
    /\ tags' = <<>>
    /\ status' = "new"
    /\ result' = ""
    /\ run' = "walk"
    /\ UNCHANGED <<files, flagsSet, index, generated, outcomes, failure, commentVars>>

WalkReturned == run = "walk" /\ status = "returned"

\* a plugin that returns ErrNoServiceDefinition like any other error
BatchStopsAtEmpty ==
    /\ WalkReturned
    /\ result = "ErrNoServiceDefinition"
    /\ run' = "error"
    /\ failure' = result
    /\ outcomes' = Append(outcomes, Outcome(result, Get))
    /\ UNCHANGED <<writerVars, files, flagsSet, index, generated, commentVars>>

\* errors.Is(err, swagger.ErrNoServiceDefinition): continue
BatchSkipEmpty ==
    /\ WalkReturned
    /\ result = "ErrNoServiceDefinition"
    /\ index' = index + 1
    /\ run' = "loop"
    /\ outcomes' = Append(outcomes, Outcome(result, Get))
    /\ UNCHANGED <<writerVars, files, flagsSet, generated, failure, commentVars>>

\* any other error of WalkFile: return err
BatchFail ==
    /\ WalkReturned
    /\ result \notin {"nil", "ErrNoServiceDefinition"}
    /\ run' = "error"
    /\ failure' = result
    /\ outcomes' = Append(outcomes, Outcome(result, Get))
    /\ UNCHANGED <<writerVars, files, flagsSet, index, generated, commentVars>>

\* WalkFile returned nil: gen.NewGeneratedFile and g.Write(writer.Get())
BatchGenerate ==
    /\ WalkReturned
    /\ result = "nil"
    /\ generated' = Append(generated, [file |-> index, body |-> Get])
    /\ index' = index + 1
    /\ run' = "loop"
    /\ outcomes' = Append(outcomes, Outcome(result, Get))
    /\ UNCHANGED <<writerVars, files, flagsSet, failure, commentVars>>

\* a panic in WalkFile ends the plugin process
BatchPanic ==
    /\ run = "walk"
    /\ status = "panic"
    /\ run' = "crash"
    /\ UNCHANGED <<writerVars, files, flagsSet, index, generated, outcomes, failure,
                   commentVars>>

\* the loop is over: return nil
BatchReturn ==
    /\ run = "loop"
    /\ index > Len(files)
    /\ run' = "done"
    /\ UNCHANGED <<writerVars, files, flagsSet, index, generated, outcomes, failure,
                   commentVars>>

BatchNext ==
    \/ BatchSkipFile
    \/ BatchMissingFlag
    \/ BatchNewWriter
    \/ Next
    \/ BatchSkipEmpty
    \/ BatchFail
    \/ BatchGenerate
    \/ BatchPanic
    \/ BatchReturn

BatchSpec == BatchInit /\ [][BatchNext]_vars

(***************************************************************************)
(* comment() on its own: called once on a documentation comment.           *)
(***************************************************************************)
Titles == {"Age", "Max age ", ""}
Separators == {";", "; ", " ;  "}
Examples == {"42", "-7", "+5", "007", "42.5", "1e3", ".5", "-0.25", "adult",
             "4 2", "inf", "NaN", "9223372036854775808", "", "42; years"}

Docs ==
    {NilComment}
    \cup {Comment(<<t \o s \o e>>) : t \in Titles, s \in Separators, e \in Examples}
    \cup {Comment(<<>>), Comment(<<"">>), Comment(<<"Age">>),
          Comment(<<"  Age; 42.5  ">>), Comment(<<"", "Age; 42">>),
          Comment(<<"Age; 42", "in years">>), Comment(<<"Age; 42", "", "More; 7">>),
          Comment(<<"Age", "; adult">>)}

CommentInit ==
    /\ doc \in Docs
    /\ parsed = <<>>
    /\ NoWriter
    /\ NoBatch

CommentCall ==
    /\ parsed = <<>>
    /\ parsed' = comment(doc)
    /\ UNCHANGED <<writerVars, batchVars, doc>>

CommentNext == CommentCall

CommentSpec == CommentInit /\ [][CommentNext]_vars

(***************************************************************************)
(* Properties of Writer.Message.                                           *)
(***************************************************************************)
HasSuffix(s, suffix) ==
    Len(suffix) <= Len(s) /\ SubSeq(s, Len(s) - Len(suffix) + 1, Len(s)) = suffix

EndsWithLine(s, line) == s = line \/ HasSuffix(s, "\n" \o line)

\* the field names of a message in textual order, the members of a one-of at
\* the place of the one-of
RECURSIVE DeclaredOrder(_)
DeclaredOrder(elements) ==
    IF elements = <<>> THEN <<>>
    ELSE LET e == Head(elements)
         IN (IF IsField(e) THEN <<e.Field.Name>>
             ELSE IF e.k = "Oneof" THEN DeclaredOrder(e.Elements)
             ELSE <<>>)
            \o DeclaredOrder(Tail(elements))

\* the field names in the order Writer.Message translates them
TranslatedOrder(msg) ==
    translateFields(allFields(msg), Len(allFields(msg)), "").fieldOrder

\* Writer.Message is about to store the definition of the current message
StoresMessage == At("Message") /\ made
StoredKey == definitionName(packageName, Current.Name)

\* C1: the description of the definition stored for a message with at least
\* one field ends with the line "Fields: n1, n2, ..." naming the fields in
\* textual declaration order, the members of a one-of at the place of the
\* one-of block.
C1_FieldsLineInDeclarationOrder ==
    [][(StoresMessage /\ DeclaredOrder(Current.Elements) # <<>>)
        => EndsWithLine(definitions'[StoredKey].Description,
                        "Fields: " \o Join(DeclaredOrder(Current.Elements), ", "))]_vars

\* C2: the x-order values of the fields of a message, in the order the fields
\* are translated, are 0, 1, ..., n-1.  (Read on the properties that carry an
\* x-order.)
C2_OrderGapFree ==
    [][StoresMessage
        => \A j \in 1..Len(TranslatedOrder(Current)) :
              LET property ==
                      definitions'[StoredKey].Properties[TranslatedOrder(Current)[j]]
              IN property.Extensions # {}
                     => property.Extensions = OrderExtension(j - 1)]_vars

\* C3: the property of a map field whose value type is in the type mapping
\* table has type "object" and additionalProperties, allows = false, of the
\* mapped primitive of the value type.
C3_MapValueType ==
    [][StoresMessage
        => \A i \in 1..Len(Current.Elements) :
              LET e == Current.Elements[i]
              IN (e.k = "MapField" /\ e.Field.Type \in DOMAIN typeAliases)
                 => LET property == definitions'[StoredKey].Properties[e.Field.Name]
                    IN /\ property.Type = "object"
                       /\ Len(property.AdditionalProperties) = 1
                       /\ property.AdditionalProperties[1].Allows = FALSE
                       /\ property.AdditionalProperties[1].Schema.Type
                             = typeAliases[e.Field.Type].Type]_vars

\* a schema without what the array wrapper of a repeated field carries
AsItem(schema) ==
    [schema EXCEPT !.Title = "", !.Description = "", !.Format = "",
                   !.Extensions = {}]

\* C4: the property of a repeated field has type "array", carries the title,
\* description and format, and its items are the schema the same field gets
\* when it is not repeated, less title, description and format.
C4_ItemsAsNonRepeated ==
    [][StoresMessage
        => \A i \in 1..Len(Current.Elements) :
              LET e == Current.Elements[i]
              IN (e.k = "NormalField" /\ e.Repeated)
                 => LET property == definitions'[StoredKey].Properties[e.Field.Name]
                        single == addField(e.Field, "", FALSE, i - 1, packageName)
                    IN /\ property.Type = "array"
                       /\ property.Title = single.Title
                       /\ property.Description = single.Description
                       /\ property.Items = <<AsItem(single)>>]_vars

(***************************************************************************)
(* Properties of the walk.                                                 *)
(***************************************************************************)
\* the element the walk in progress has just passed
Passed == TopVisits[Top.idx - 1]
HasPassed == status = "walking" /\ Top.idx > 1

\* C5: for every RPC visited, Writer.RPC stores one POST operation under the
\* path "/<base>/<package>.<Service>/<RPC>", <base> the service name
\* lower-cased without "service"; package orders, service OrderService, RPC
\* GetOrder give "/order/orders.OrderService/GetOrder".
C5_RPCStored ==
    [][At("RPC")
        => LET route == pathName(packageName, Current.Parent, Current.Name)
           IN /\ DOMAIN paths' = DOMAIN paths \cup {route}
              /\ paths'[route].Post.ID = Current.Name
              /\ paths'[route].Post.Tags = <<Current.Parent>>
              /\ \A other \in DOMAIN paths \ {route} : paths'[other] = paths[other]
              /\ (packageName = "orders" /\ Current.Parent = "OrderService"
                  /\ Current.Name = "GetOrder")
                 => route = "/order/orders.OrderService/GetOrder"]_vars

\* an import of a file that cannot be loaded is being handled
FailingImport ==
    /\ At("Import")
    /\ ~IsSkippedImport(Current.Filename)
    /\ ~Loadable(Current.Filename)

\* C6: Writer.Import of a file that cannot be loaded returns normally and
\* leaves definitions, paths, tags and the package name as they were; the
\* walk goes on with the next declaration of the importing file.
C6_FailedImportChangesNothing ==
    [][FailingImport
        => /\ status' = "walking"
           /\ result' = result
           /\ definitions' = definitions /\ made' = made
           /\ paths' = paths
           /\ tags' = tags
           /\ packageName' = packageName
           /\ stack' = Advanced]_vars

\* a failed import was passed with a definition collected before it, and the
\* importing file has a next declaration
C6_Witness ==
    /\ HasPassed
    /\ Passed.k = "Import"
    /\ ~IsSkippedImport(Passed.Filename) /\ ~Loadable(Passed.Filename)
    /\ DOMAIN definitions # {}
    /\ Visiting

WalkEnded == status \in {"returned", "panic"}

\* C7: WalkFile on a loadable root file returns ErrNoServiceDefinition when
\* no RPC was translated into a path and nil otherwise; a root file that
\* cannot be loaded gives another error.
C7_EmptyResult ==
    WalkEnded
        => IF Loadable(filename)
           THEN result = (IF DOMAIN paths = {} THEN "ErrNoServiceDefinition" ELSE "nil")
           ELSE result \notin {"ErrNoServiceDefinition", "nil"}

RootVisits == Visits(root)

PathsAndTagsFromRoot ==
    /\ \A i \in 1..Len(tags) :
          \E j \in 1..Len(RootVisits) :
              RootVisits[j].k = "Service" /\ RootVisits[j].Name = tags[i].Name
    /\ \A route \in DOMAIN paths :
          \E j \in 1..Len(RootVisits) :
              /\ RootVisits[j].k = "RPC"
              /\ paths[route].Post.ID = RootVisits[j].Name
              /\ paths[route].Post.Tags = <<RootVisits[j].Parent>>

\* C8: no step of Writer.Import, in the imported file or in one it imports,
\* changes paths or tags; every tag and every path comes from a service or
\* an RPC of the root file.
C8_ImportsLeavePathsAndTags ==
    [][/\ ((status = "walking" /\ Depth > 1) \/ At("Import"))
            => (paths' = paths /\ tags' = tags)
       /\ PathsAndTagsFromRoot']_vars

\* the walk of an imported file has passed an RPC, with a path and a tag of
\* the root file collected
C8_Witness ==
    /\ HasPassed /\ Depth > 1
    /\ Passed.k = "RPC"
    /\ DOMAIN paths # {}
    /\ tags # <<>>

\* the package the declarations visited so far give the walk at depth d: the
\* last one declared in its file, else the one of the importing walk
RECURSIVE ExpectedPackage(_)
ExpectedPackage(d) ==
    IF d = 0 THEN ""
    ELSE LET visits == Visits(Declarations(stack[d].file))
             declared == {i \in 1..(stack[d].idx - 1) : visits[i].k = "Package"}
         IN IF declared # {}
            THEN visits[CHOOSE i \in declared : \A j \in declared : j <= i].Name
            ELSE ExpectedPackage(d - 1)

\* C9: after Writer.Import has returned the package name is what it was when
\* Import was called: at every point of a walk it is the package last
\* declared in the file being walked, or else the one of the importing file
\* at the import.
C9_PackageRestored ==
    status = "walking" => packageName = ExpectedPackage(Depth)

\* Import has returned to the root walk from a file with another package
\* that itself imported a file with a third package
C9_Witness ==
    /\ HasPassed /\ Depth = 1
    /\ Passed.k = "Import" /\ Passed.Filename = "other.proto"
    /\ packageName = "orders"
    /\ {"other.Item", "deep.Deep"} \subseteq DOMAIN definitions

NoDuplicateTags ==
    \A i, j \in 1..Len(tags) : i # j => tags[i].Name # tags[j].Name

ReferencedKey(pkg, t) == IF Contains(t, ".") THEN t ELSE definitionName(pkg, t)

\* C11: the body parameter and the 200 response of the operation Writer.RPC
\* stores refer to the definitions of the request and the response type of
\* the RPC, by the key those messages are stored under, for a type named
\* unqualified and for one named with the package of an imported file.
C11_RPCRefsNameDefinitions ==
    [][(At("RPC") /\ made)
        => LET post == paths'[pathName(packageName, Current.Parent, Current.Name)].Post
           IN /\ Len(post.Parameters) = 1
              /\ post.Parameters[1].Required
              /\ post.Parameters[1].Ref
                    = "#/definitions/" \o ReferencedKey(packageName, Current.RequestType)
              /\ post.Responses.Ref
                    = "#/definitions/" \o ReferencedKey(packageName, Current.ReturnsType)]_vars

(***************************************************************************)
(* Properties of the plugin run.                                           *)
(***************************************************************************)
\* the output files the outcomes of the first n files call for: one for
\* every file WalkFile returned nil for, in order
RECURSIVE GeneratedOf(_, _)
GeneratedOf(log, n) ==
    IF n = 0 THEN <<>>
    ELSE IF log[n].result = "nil"
         THEN Append(GeneratedOf(log, n - 1), [file |-> n, body |-> log[n].body])
         ELSE GeneratedOf(log, n - 1)

\* C12: the plugin passes the files in order.  For a file marked for
\* generation: on ErrNoServiceDefinition no output file is generated and the
\* loop goes on with the next file; on another error the run returns that
\* error and passes no later file; on nil exactly one output file is
\* generated.  Once the run has returned nothing more is done, and the output
\* files are those of the files that came to nil, whatever came before them.
C12_BatchRun ==
    [][/\ WalkReturned
            => IF result = "ErrNoServiceDefinition"
               THEN generated' = generated /\ index' = index + 1 /\ run' = "loop"
               ELSE IF result = "nil"
               THEN /\ generated' = Append(generated, [file |-> index, body |-> Get])
                    /\ index' = index + 1 /\ run' = "loop"
               ELSE /\ run' = "error" /\ failure' = result
                    /\ generated' = generated /\ index' = index
       /\ run \in {"error", "done"} => UNCHANGED vars
       /\ run' = "loop" => Len(outcomes') = index' - 1
       /\ generated' = GeneratedOf(outcomes', Len(outcomes'))]_vars

\* the run returned nil after a file without an RPC, a file not marked for
\* generation and then a file with services, which got its output file
C12_Witness ==
    /\ run = "done"
    /\ Len(outcomes) = 3
    /\ outcomes[1].result = "ErrNoServiceDefinition"
    /\ outcomes[2].result = "not generated"
    /\ outcomes[3].result = "nil"
    /\ Len(generated) = 1 /\ generated[1].file = 3

RECURSIVE LeadingLines(_)
LeadingLines(lines) ==
    IF lines = <<>> \/ TrimSpace(Head(lines)) = "" THEN <<>>
    ELSE <<TrimSpace(Head(lines))>> \o LeadingLines(Tail(lines))

DocText(c) == Join(LeadingLines(c.Lines), " ")

\* the place of the first ";" of s
FirstSemicolon(s) ==
    CHOOSE i \in 1..Len(s) : Char(s, i) = ";" /\ \A j \in 1..(i - 1) : Char(s, j) # ";"

BeforeSemicolon(s) ==
    IF Contains(s, ";") THEN SubSeq(s, 1, FirstSemicolon(s) - 1) ELSE s

\* the segment after the first ";" of s, up to the next ";"
AfterSemicolon(s) == BeforeSemicolon(SubSeq(s, FirstSemicolon(s) + 1, Len(s)))

\* integer, then float, then the literal string
ParsedExample(e) ==
    IF AtoiOk(e) THEN IntExample(AtoiValue(e))
    ELSE IF ParseFloatOk(e) THEN FloatExample(e)
    ELSE StringExample(e)

\* C14: comment() on "T; E" returns the title T, the text before the first
\* ";", and as example the segment after the first ";", trimmed, parsed as an
\* integer, else as a float, else kept as a string: "Age; 42" gives "Age"
\* and the integer 42, "Age; 42.5" the float 42.5, "Age; adult" the string
\* "adult".  A comment without ";" gives an empty example, a nil comment an
\* empty title and an empty example.
C14_CommentParse ==
    parsed # <<>>
        => /\ doc.IsNil => parsed = <<"", StringExample("")>>
           /\ ~doc.IsNil
                => IF Contains(DocText(doc), ";")
                   THEN parsed = <<BeforeSemicolon(DocText(doc)),
                                   ParsedExample(TrimSpace(AfterSemicolon(DocText(doc))))>>
                   ELSE parsed = <<DocText(doc), StringExample("")>>
           /\ doc = Comment(<<"Age; 42">>) => parsed = <<"Age", IntExample("42")>>
           /\ doc = Comment(<<"Age; 42.5">>) => parsed = <<"Age", FloatExample("42.5")>>
           /\ doc = Comment(<<"Age; adult">>) => parsed = <<"Age", StringExample("adult")>>

\* comment() has returned for "Age; 42"
C14_Witness ==
    /\ doc = Comment(<<"Age; 42">>)
    /\ parsed = <<"Age", IntExample("42")>>

(***************************************************************************)
(* Properties of import resolution.                                        *)
(***************************************************************************)
\* the files the declarations of a file make Writer.Import load
ImportsOf(name) ==
    {Declarations(name)[i].Filename : i \in
        {j \in 1..Len(Declarations(name)) :
            /\ Declarations(name)[j].k = "Import"
            /\ ~IsSkippedImport(Declarations(name)[j].Filename)
            /\ Loadable(Declarations(name)[j].Filename)}}

RECURSIVE ImportedWithin(_, _)
ImportedWithin(names, n) ==
    IF n = 0 THEN names
    ELSE ImportedWithin(names \cup UNION {ImportsOf(f) : f \in names}, n - 1)

\* the files loaded, directly or through other files, for the imports of name
ImportClosure(name) ==
    ImportedWithin(ImportsOf(name), Cardinality(DOMAIN ImportedFiles))

\* a file of the import closure of the root file imports itself
ImportCycle ==
    \E f \in {RootName} \cup ImportClosure(RootName) : f \in ImportClosure(f)

\* the walk of a file is in progress inside a walk of the same file
InCycle ==
    \E d, e \in 1..Depth : d < e /\ stack[d].file = stack[e].file

\* C15: with a file of the import closure of a loadable root that imports
\* itself, WalkFile never returns, and once the walk is inside the cycle the
\* recursion of Import and Walk only deepens (here up to MaxDepth); with a
\* finite import graph without a cycle WalkFile ends.
C15_ImportCycles ==
    /\ []((Loadable(filename) /\ ImportCycle) => status # "returned")
    /\ [][InCycle => (InCycle' /\ Depth' >= Depth /\ status' = "walking")]_vars
    /\ (InCycle ~> Depth = MaxDepth)
    /\ ((status = "new" /\ ~ImportCycle) ~> WalkEnded)

\* the walk of loop.proto, which imports itself, is MaxDepth - 1 walks deep in
\* itself, below a root file that declared its package
C15_Witness ==
    /\ Depth = MaxDepth
    /\ \A d \in 2..Depth : stack[d].file = "loop.proto"
    /\ made
    /\ status = "walking"

(***************************************************************************)
(* Properties of the property schemas, of the keys and of the collections. *)
(***************************************************************************)
\* the fields of a message in textual order, the members of a one-of at the
\* place of the one-of
RECURSIVE DeclaredFields(_)
DeclaredFields(elements) ==
    IF elements = <<>> THEN <<>>
    ELSE LET e == Head(elements)
         IN (IF IsField(e) THEN <<e>>
             ELSE IF e.k = "Oneof" THEN DeclaredFields(e.Elements)
             ELSE <<>>)
            \o DeclaredFields(Tail(elements))

\* C16: the property stored for a field, of whatever kind, carries the
\* extension x-order with the place of the field among the declared fields
\* of the message, counted from 0; the items of an array carry none.
C16_EveryPropertyOrdered ==
    [][StoresMessage
        => \A j \in 1..Len(DeclaredFields(Current.Elements)) :
              LET e == DeclaredFields(Current.Elements)[j]
                  property == definitions'[StoredKey].Properties[e.Field.Name]
              IN /\ property.Extensions = OrderExtension(j - 1)
                 /\ property.Items # <<>> => property.Items[1].Extensions = {}]_vars

\* C17: the example of the comment of a field, when the comment has one, is
\* the example of the property stored for the field (of the items, for a
\* repeated field of a primitive type); without one, no example is stored.
C17_ExampleOnEveryKind ==
    [][StoresMessage
        => \A j \in 1..Len(DeclaredFields(Current.Elements)) :
              LET e == DeclaredFields(Current.Elements)[j]
                  property == definitions'[StoredKey].Properties[e.Field.Name]
                  example == comment(e.Field.Comment)[2]
                  primitiveArray ==
                      /\ e.k = "NormalField" /\ e.Repeated
                      /\ e.Field.Type \in DOMAIN typeAliases
              IN IF example # StringExample("")
                 THEN IF primitiveArray
                      THEN property.Items[1].Example = example
                      ELSE property.Example = example
                 ELSE /\ property.Example = NoExample
                      /\ property.Items # <<>>
                            => property.Items[1].Example = NoExample]_vars

\* the package a file declares, "" when it declares none
DeclaredPackage(name) ==
    LET declared == {i \in 1..Len(Declarations(name)) :
                        Declarations(name)[i].k = "Package"}
    IN IF declared = {} THEN ""
       ELSE Declarations(name)[CHOOSE i \in declared : \A j \in declared : i <= j].Name

\* C18: a message or an enum, nested ones too, is stored under the key
\* "<package>.<Name>" with the package of the file that declares it, in the
\* root file and in every imported file.
C18_KeyedByDeclaringPackage ==
    [][((At("Message") \/ At("Enum")) /\ made)
        => DOMAIN definitions'
              = DOMAIN definitions
                \cup {definitionName(DeclaredPackage(Top.file), Current.Name)}]_vars

\* C19: in the walk of a loadable root file definitions and paths are
\* allocated before Writer.Message, Writer.Enum or Writer.RPC store into them
\* and before WalkFile counts the paths, wherever the package declaration
\* stands and without one, so the walk does not panic and WalkFile returns
\* nil or ErrNoServiceDefinition.
C19_CollectionsReady ==
    Loadable(filename)
        => /\ status # "panic"
           /\ status = "returned" => result \in {"nil", "ErrNoServiceDefinition"}
           /\ (At("Message") \/ At("Enum") \/ At("RPC")) => made
           /\ (status = "walking" /\ InRoot /\ ~Visiting) => made

=============================================================================
